---------------------------- MODULE Spec2Model ----------------------------
(***************************************************************************)
(* Model of the website status checker (src/status_checker/src/main.rs):   *)
(* parse_args, the shared job queue behind a mutex, the worker threads     *)
(* running fetch_status with its retry loop, the mpsc channel, the         *)
(* collector loop of main, the joins and write_json.                       *)
(*                                                                         *)
(* Strings are sequences of one-character strings, so that trim, split,    *)
(* number parsing and formatting are computed character by character.      *)
(*                                                                         *)
(* Environment assumptions (outside every claim checked here): the wall    *)
(* clock does not step backwards between the creation of an outcome and    *)
(* its collection (SystemTime::elapsed().unwrap(), lines 188 and 191),     *)
(* stdout stays writable, threads and the HTTP client can be created.      *)
(* The timestamp field of WebsiteStatus is not kept in the state; the text *)
(* of status.json is computed for the seconds it may hold.                 *)
(*                                                                         *)
(* Spec and FairSpec are the whole program.  SpecParse, SpecProbe and      *)
(* SpecReport run parse_args, fetch_status and write_json alone, on inputs *)
(* the whole program is too large to enumerate: repeated flags, every      *)
(* retry budget of the type, strings with quotes and backslashes.          *)
(***************************************************************************)
EXTENDS Integers, Sequences, FiniteSets, Bags, TLC

(***************************************************************************)
(* Bounds of the model.                                                    *)
(***************************************************************************)
\* largest number of segments (a URL, a flag with its value, a bare flag)
\* a command line is built from
MaxSegments == 2
\* largest value given to --workers, and largest host parallelism
MaxWorkers == 2
\* largest value given to --retries
MaxRetries == 2
\* the largest value of the attempt counter and of the retry budget, in the
\* place of u32::MAX
MaxU32 == 3

(***************************************************************************)
(* Characters and strings.                                                 *)
(***************************************************************************)
DigitChars == <<"0", "1", "2", "3", "4", "5", "6", "7", "8", "9">>

IsDigit(c) == \E n \in 1..10 : DigitChars[n] = c

DigitVal(c) == (CHOOSE n \in 1..10 : DigitChars[n] = c) - 1

\* char::is_whitespace, restricted to the characters that occur
IsWhitespace(c) == c \in {" ", "\t", "\n", "\r"}

RECURSIVE TrimStart(_)
TrimStart(s) ==
    IF s # <<>> /\ IsWhitespace(Head(s)) THEN TrimStart(Tail(s)) ELSE s

RECURSIVE TrimEnd(_)
TrimEnd(s) ==
    IF s # <<>> /\ IsWhitespace(s[Len(s)])
    THEN TrimEnd(SubSeq(s, 1, Len(s) - 1))
    ELSE s

\* str::trim
Trim(s) == TrimEnd(TrimStart(s))

\* str::starts_with(char)
StartsWith(s, c) == s # <<>> /\ Head(s) = c

\* the decimal digits of a natural number (Display for integers)
RECURSIVE FormatNat(_)
FormatNat(n) ==
    IF n < 10 THEN <<DigitChars[n + 1]>>
    ELSE FormatNat(n \div 10) \o <<DigitChars[(n % 10) + 1]>>

RECURSIVE DigitsValue(_, _)
DigitsValue(s, acc) ==
    IF s = <<>> THEN acc
    ELSE DigitsValue(Tail(s), acc * 10 + DigitVal(Head(s)))

\* str::parse for the unsigned integer types (usize, u64, u32): an optional
\* leading '+', then one or more decimal digits; anything else is an error.
\* The result is [ok |-> TRUE, val |-> n] or [ok |-> FALSE].  The tokens of
\* the model are far too short to overflow the type.
ParseUnsigned(s) ==
    LET digits == IF StartsWith(s, "+") THEN Tail(s) ELSE s
    IN  IF digits # <<>> /\ \A k \in 1..Len(digits) : IsDigit(digits[k])
        THEN [ok |-> TRUE, val |-> DigitsValue(digits, 0)]
        ELSE [ok |-> FALSE]

\* Result::unwrap_or
UnwrapOr(parsed, default) == IF parsed.ok THEN parsed.val ELSE default

(***************************************************************************)
(* The command line and the file system.                                   *)
(***************************************************************************)
FlagFile == <<"-", "-", "f", "i", "l", "e">>
FlagWorkers == <<"-", "-", "w", "o", "r", "k", "e", "r", "s">>
FlagTimeout == <<"-", "-", "t", "i", "m", "e", "o", "u", "t">>
FlagRetries == <<"-", "-", "r", "e", "t", "r", "i", "e", "s">>

\* args[0], the program name
ProgramName == <<"w", "c">>

\* the paths the model passes to --file: a file with one URL among a
\* comment and a blank line, a file with no URL, a directory; any other
\* path does not exist
PathUrls == <<"f">>
PathNoUrls == <<"e">>
PathDir == <<"d">>
PathMissing == <<"m">>

FileSystem ==
    (PathUrls :> [kind |-> "file",
                  lines |-> << <<"#", " ", "a">>, <<>>, <<" ", "b", " ">> >>])
    @@ (PathNoUrls :> [kind |-> "file", lines |-> << <<"#", "a">>, <<" ">> >>])
    @@ (PathDir :> [kind |-> "dir", lines |-> <<>>])


\* read_lines: File::open fails for a path that does not exist
ReadLinesOk(path) == path \in DOMAIN FileSystem

\* the lines kept by lines 97-101: trimmed, not empty, not a '#' comment
RECURSIVE FileUrls(_)
FileUrls(lines) ==
    IF lines = <<>> THEN <<>>
    ELSE LET line == Trim(Head(lines))
         IN  IF line # <<>> /\ ~StartsWith(line, "#")
             THEN <<line>> \o FileUrls(Tail(lines))
             ELSE FileUrls(Tail(lines))

\* the body of the "--file" arm once a path follows the flag.  A directory
\* opens, then every read of it fails, and lines.flatten() never ends:
\* parse_args spins (cfg.spins).
ReadFileInto(cfg, path) ==
    IF ~ReadLinesOk(path) THEN cfg
    ELSE IF FileSystem[path].kind = "dir" THEN [cfg EXCEPT !.spins = TRUE]
    ELSE [cfg EXCEPT !.urls = @ \o FileUrls(FileSystem[path].lines)]

DefaultTimeout == 5
DefaultRetries == 0

\* the locals of parse_args before its loop; parallelism is what
\* available_parallelism() returns
InitialConfig(parallelism) ==
    [urls |-> <<>>, workers |-> parallelism, timeout |-> DefaultTimeout,
     retries |-> DefaultRetries, spins |-> FALSE]

\* the while loop of parse_args; i is the 1-based index into args, args[1]
\* being the program name
RECURSIVE parse_loop(_, _, _)
parse_loop(args_, i, cfg) ==
    IF i > Len(args_) \/ cfg.spins THEN cfg
    ELSE LET arg == args_[i]
             j == i + 1
             hasValue == j <= Len(args_)
         IN  CASE arg = FlagFile ->
                    parse_loop(args_, j + 1,
                        IF hasValue THEN ReadFileInto(cfg, args_[j]) ELSE cfg)
               [] arg = FlagWorkers ->
                    parse_loop(args_, j + 1,
                        IF hasValue
                        THEN [cfg EXCEPT !.workers =
                                  UnwrapOr(ParseUnsigned(args_[j]), @)]
                        ELSE cfg)
               [] arg = FlagTimeout ->
                    parse_loop(args_, j + 1,
                        IF hasValue
                        THEN [cfg EXCEPT !.timeout =
                                  UnwrapOr(ParseUnsigned(args_[j]), @)]
                        ELSE cfg)
               [] arg = FlagRetries ->
                    parse_loop(args_, j + 1,
                        IF hasValue
                        THEN [cfg EXCEPT !.retries =
                                  UnwrapOr(ParseUnsigned(args_[j]), @)]
                        ELSE cfg)
               [] OTHER ->
                    parse_loop(args_, i + 1, [cfg EXCEPT !.urls = Append(@, arg)])

\* lines 84-128 of parse_args
parse_args(args_, parallelism) == parse_loop(args_, 2, InitialConfig(parallelism))

\* faulty variant of NoUrls: the test is missing
NoUrlsUnchecked(cfg) == FALSE

\* the test of line 130
NoUrls(cfg) == cfg.urls = <<>>

(***************************************************************************)
(* The command lines of the model: the program name followed by at most    *)
(* MaxSegments segments, a segment being a URL, a flag with a value, or a  *)
(* flag alone.                                                             *)
(***************************************************************************)
UrlTokens == { <<"a">>, <<"b">> }
NotANumber == <<"x">>

Segments ==
    { <<u>> : u \in UrlTokens }
    \cup { <<FlagFile, p>> : p \in {PathUrls, PathNoUrls, PathDir, PathMissing} }
    \cup { <<FlagWorkers, v>> :
             v \in { FormatNat(n) : n \in 0..MaxWorkers } \cup {NotANumber} }
    \cup { <<FlagRetries, v>> :
             v \in { FormatNat(n) : n \in 1..MaxRetries } \cup {NotANumber} }
    \cup { <<FlagTimeout, v>> : v \in { <<"9">>, NotANumber } }
    \cup { <<f>> : f \in {FlagFile, FlagWorkers, FlagTimeout, FlagRetries} }

RECURSIVE SegmentLists(_)
SegmentLists(n) ==
    IF n = 0 THEN { <<>> }
    ELSE LET shorter == SegmentLists(n - 1)
         IN  shorter \cup { l \o s : l \in shorter, s \in Segments }

CommandLines == { <<ProgramName>> \o l : l \in SegmentLists(MaxSegments) }


(***************************************************************************)
(* The network: what one client.get(url).send() can return, and how long   *)
(* it can take (milliseconds).                                             *)
(***************************************************************************)
StatusCodes == {200, 503}
ErrMsgs == { <<"t", ":", " ", "o">>, <<"d", "n", "s">> }
AttemptMs == {20, 30}

\* Result<Response, reqwest::Error>, reduced to what fetch_status reads
Responses ==
    { [ok |-> TRUE, code |-> c] : c \in StatusCodes }
    \cup { [ok |-> FALSE, msg |-> m] : m \in ErrMsgs }

\* thread::sleep(Duration::from_millis(100)), line 48
BackoffMs == 100

Workers == 1..MaxWorkers

(***************************************************************************)
(* State.                                                                  *)
(***************************************************************************)
VARIABLES
    mainpc,       \* where the main thread is
    args,         \* env::args(), while parse_args runs
    exit_code,    \* -1 while the process runs, then its exit status
    stderr,       \* the lines printed on the error stream
    urls,         \* the URL list parse_args returned, as submitted (history)
    worker_count, \* the configuration parse_args returned
    timeout,
    retries,
    job_queue,    \* the VecDeque behind the mutex
    lock,         \* the worker holding the mutex, 0 when it is free
    spawned,      \* handles.len()
    joined,       \* handles already joined
    tx_main,      \* main still holds its Sender
    chan,         \* the outcomes sent and not yet received
    results,      \* the Vec the collector accumulates
    stdout,       \* the progress lines printed
    file,         \* status.json
    wpc,          \* where each worker thread is
    front,        \* the front element pop_front has read
    url_opt,      \* <<>> for None, <<url>> for Some(url)
    attempts,     \* locals of fetch_status
    since_start,  \* what start.elapsed() returns now
    status,       \* the WebsiteStatus fetch_status returned, not yet sent
    log,          \* history: the requests and pauses of the current probe
    handed,       \* history: the URLs pop_front returned, in order
    created,      \* history: the bag of outcomes fetch_status returned
    received      \* history: the outcomes the collector received, in order

mainVars == <<mainpc, args, exit_code, stderr, urls, worker_count, timeout,
              retries, spawned, joined, tx_main>>
sinkVars == <<results, stdout, file, received>>
probeVars == <<attempts, since_start, status, log, created>>
queueVars == <<job_queue, lock, front, url_opt, handed>>
vars == <<mainVars, sinkVars, probeVars, queueVars, chan, wpc>>

RECURSIVE BagOfSeq(_)
BagOfSeq(s) ==
    IF s = <<>> THEN EmptyBag ELSE BagOfSeq(Tail(s)) (+) SetToBag({Head(s)})

Init ==
    /\ mainpc = "parse_args"
    /\ args \in CommandLines
    /\ exit_code = -1
    /\ stderr = <<>>
    /\ urls = <<>>
    /\ worker_count = 0
    /\ timeout = 0
    /\ retries = 0
    /\ job_queue = <<>>
    /\ lock = 0
    /\ spawned = 0
    /\ joined = 0
    /\ tx_main = FALSE
    /\ chan = <<>>
    /\ results = <<>>
    /\ stdout = <<>>
    /\ file = [exists |-> FALSE, items |-> <<>>]
    /\ wpc = [w \in Workers |-> "unborn"]
    /\ front = [w \in Workers |-> <<>>]
    /\ url_opt = [w \in Workers |-> <<>>]
    /\ attempts = [w \in Workers |-> 0]
    /\ since_start = [w \in Workers |-> 0]
    /\ status = [w \in Workers |-> <<>>]
    /\ log = [w \in Workers |-> <<>>]
    /\ handed = <<>>
    /\ created = EmptyBag
    /\ received = <<>>

(***************************************************************************)
(* main: parse_args and the set-up, lines 144-156.                         *)
(***************************************************************************)
UsageLine == <<"U", "s", "a", "g", "e">>

\* parse_args finds no URL: eprintln!(usage), std::process::exit(2)
ParseArgsExit ==
    /\ mainpc = "parse_args"
    /\ \E parallelism \in 1..MaxWorkers :
         LET cfg == parse_args(args, parallelism)
         IN  ~cfg.spins /\ NoUrls(cfg)
    /\ stderr' = Append(stderr, UsageLine)
    /\ exit_code' = 2
    /\ mainpc' = "done"
    /\ UNCHANGED <<args, urls, worker_count, timeout, retries, spawned, joined,
                   tx_main, sinkVars, probeVars, queueVars, chan, wpc>>

\* parse_args returns (urls, workers, timeout, retries); its args are dropped
ParseArgsReturn ==
    /\ mainpc = "parse_args"
    /\ \E parallelism \in 1..MaxWorkers :
         LET cfg == parse_args(args, parallelism)
         IN  /\ ~cfg.spins
             /\ ~NoUrls(cfg)
             /\ urls' = cfg.urls
             /\ worker_count' = cfg.workers
             /\ timeout' = cfg.timeout
             /\ retries' = cfg.retries
    /\ args' = <<>>
    /\ mainpc' = "setup"
    /\ UNCHANGED <<exit_code, stderr, spawned, joined, tx_main, sinkVars,
                   probeVars, queueVars, chan, wpc>>

\* --file names a directory: lines.flatten() yields nothing and never ends
ParseArgsSpin ==
    /\ mainpc = "parse_args"
    /\ \E parallelism \in 1..MaxWorkers : parse_args(args, parallelism).spins
    /\ UNCHANGED vars

\* a list in the opposite order
RECURSIVE Reverse(_)
Reverse(s) == IF s = <<>> THEN <<>> ELSE Append(Reverse(Tail(s)), Head(s))

\* faulty variant of Setup: the queue is filled in the opposite order
SetupReversed ==
    /\ mainpc = "setup"
    /\ job_queue' = Reverse(urls)
    /\ tx_main' = TRUE
    /\ mainpc' = "spawn"
    /\ UNCHANGED <<args, exit_code, stderr, urls, worker_count, timeout,
                   retries, spawned, joined, sinkVars, probeVars, lock, front,
                   url_opt, handed, chan, wpc>>

\* lines 146-156: the queue, the channel, the client, the empty handles
Setup ==
    /\ mainpc = "setup"
    /\ job_queue' = urls
    /\ tx_main' = TRUE
    /\ mainpc' = "spawn"
    /\ UNCHANGED <<args, exit_code, stderr, urls, worker_count, timeout,
                   retries, spawned, joined, sinkVars, probeVars, lock, front,
                   url_opt, handed, chan, wpc>>


(***************************************************************************)
(* main: the spawn loop and drop(tx), lines 158-183.                       *)
(***************************************************************************)
\* one iteration of the for loop: the clones, thread::spawn, handles.push
Spawn ==
    /\ mainpc = "spawn"
    /\ spawned < worker_count
    /\ spawned' = spawned + 1
    /\ wpc' = [wpc EXCEPT ![spawned + 1] = "lock"]
    /\ UNCHANGED <<mainpc, args, exit_code, stderr, urls, worker_count,
                   timeout, retries, joined, tx_main, sinkVars, probeVars,
                   queueVars, chan>>

\* faulty variant of DropTx: main keeps its Sender
DropTxKeepsSender ==
    /\ mainpc = "spawn"
    /\ spawned = worker_count
    /\ mainpc' = "collect"
    /\ UNCHANGED <<args, exit_code, stderr, urls, worker_count, timeout,
                   retries, spawned, joined, tx_main, sinkVars, probeVars,
                   queueVars, chan, wpc>>

\* the loop is over; drop(tx), line 183
DropTx ==
    /\ mainpc = "spawn"
    /\ spawned = worker_count
    /\ tx_main' = FALSE
    /\ mainpc' = "collect"
    /\ UNCHANGED <<args, exit_code, stderr, urls, worker_count, timeout,
                   retries, spawned, joined, sinkVars, probeVars, queueVars,
                   chan, wpc>>

(***************************************************************************)
(* The worker closure, lines 163-178.                                      *)
(***************************************************************************)
\* a thread that panicked: unreachable!() of line 53, the overflow check of
\* line 47, or the unwrap of a failed send of line 173
WorkerPanicked(w) == wpc[w] \in {"unreachable", "overflow", "send_failed"}

WorkerTerminated(w) == wpc[w] = "exited" \/ WorkerPanicked(w)

\* the closure owns its clone of tx from the spawn until it returns or unwinds
WorkerHoldsTx(w) ==
    wpc[w] \notin {"unborn", "finishing", "exited", "unreachable", "overflow",
                 "send_failed"}

\* the Receiver lives until the for loop of line 186 ends
RxAlive == mainpc \in {"spawn", "collect"}

\* faulty variant of Lock: the queue is entered without waiting for the mutex
LockNoMutex(w) ==
    /\ wpc[w] = "lock"
    /\ lock' = w
    /\ wpc' = [wpc EXCEPT ![w] = "pop_front"]
    /\ UNCHANGED <<mainVars, sinkVars, probeVars, job_queue, front, url_opt,
                   handed, chan>>

\* job_queue.lock().unwrap(), line 166: blocks while the mutex is held
Lock(w) ==
    /\ wpc[w] = "lock"
    /\ lock = 0
    /\ lock' = w
    /\ wpc' = [wpc EXCEPT ![w] = "pop_front"]
    /\ UNCHANGED <<mainVars, sinkVars, probeVars, job_queue, front, url_opt,
                   handed, chan>>

\* queue.pop_front(), line 167, first half: read whether the deque is empty
\* and which element is at its head
PopFrontRead(w) ==
    /\ wpc[w] = "pop_front"
    /\ front' = [front EXCEPT ![w] =
                    IF job_queue = <<>> THEN <<>> ELSE <<Head(job_queue)>>]
    /\ wpc' = [wpc EXCEPT ![w] = "pop_front_remove"]
    /\ UNCHANGED <<mainVars, sinkVars, probeVars, job_queue, lock, url_opt,
                   handed, chan>>

\* faulty variant of PopFrontRemove: the guard outlives the block and is
\* still held when the URL is probed
PopFrontRemoveKeepsGuard(w) ==
    /\ wpc[w] = "pop_front_remove"
    /\ job_queue' = IF front[w] = <<>> \/ job_queue = <<>>
                    THEN job_queue ELSE Tail(job_queue)
    /\ url_opt' = [url_opt EXCEPT ![w] = front[w]]
    /\ handed' = handed \o front[w]
    /\ front' = [front EXCEPT ![w] = <<>>]
    /\ wpc' = [wpc EXCEPT ![w] = "match"]
    /\ UNCHANGED <<mainVars, sinkVars, probeVars, lock, chan>>

\* queue.pop_front(), second half: advance the head and return the element
\* read; then the guard is dropped at the end of the block, line 168
PopFrontRemove(w) ==
    /\ wpc[w] = "pop_front_remove"
    /\ job_queue' = IF front[w] = <<>> \/ job_queue = <<>>
                    THEN job_queue ELSE Tail(job_queue)
    /\ url_opt' = [url_opt EXCEPT ![w] = front[w]]
    /\ handed' = handed \o front[w]
    /\ front' = [front EXCEPT ![w] = <<>>]
    /\ lock' = IF lock = w THEN 0 ELSE lock
    /\ wpc' = [wpc EXCEPT ![w] = "match"]
    /\ UNCHANGED <<mainVars, sinkVars, probeVars, chan>>

\* faulty variant of IsResponse: a response with an error status counts as a failure
IsResponseBelow400(res) == res.ok /\ res.code < 400

\* the pattern of line 30: the request got a response, whatever its status
IsResponse(res) == res.ok

\* faulty variants of LastAttempt: the probe gives up one attempt early; the arm
\* of line 38 is missing
LastAttemptEarly(a, r) == a + 1 >= r
LastAttemptNever(a, r) == FALSE

\* the guard of line 38
LastAttempt(a, r) == a = r

\* faulty variant of Elapsed: the clock is restarted at every attempt
ElapsedOfAttempt(since, ms) == ms

\* start.elapsed(), line 27, when the request took ms milliseconds and
\* start was taken `since` milliseconds before the request was issued
Elapsed(since, ms) == since + ms

\* faulty variant of WhileTest: the loop runs while attempts < retries
WhileTestStrict(a, r) == IF a < r THEN "request" ELSE "unreachable"

\* the loop condition of line 25, and where the thread goes next
WhileTest(a, r) == IF a <= r THEN "request" ELSE "unreachable"

\* faulty variant of Increment: the counter is advanced twice for one attempt
IncrementTwice(a) == { [panic |-> FALSE, val |-> a + 2] }

\* attempts += 1, line 47, on a u32 whose largest value is MaxU32: past it
\* the addition panics in a build with overflow checks and wraps to 0 in a
\* build without
Increment(a) ==
    IF a < MaxU32 THEN { [panic |-> FALSE, val |-> a + 1] }
    ELSE { [panic |-> TRUE, val |-> a], [panic |-> FALSE, val |-> 0] }

\* a WebsiteStatus (without its timestamp)
Outcome(url, res, elapsed) ==
    [url |-> url, action_status |-> res, response_time |-> elapsed]

\* Some(url): fetch_status is entered, lines 22-25
FetchStart(w) ==
    /\ wpc[w] = "match"
    /\ url_opt[w] # <<>>
    /\ since_start' = [since_start EXCEPT ![w] = 0]
    /\ attempts' = [attempts EXCEPT ![w] = 0]
    /\ log' = [log EXCEPT ![w] = <<>>]
    /\ wpc' = [wpc EXCEPT ![w] = WhileTest(0, retries)]
    /\ UNCHANGED <<mainVars, sinkVars, status, created, queueVars, chan>>

\* one iteration of the while loop, lines 26-50: the request, the elapsed
\* time, and the arm of the match
Request(w) ==
    /\ wpc[w] = "request"
    /\ \E res \in Responses, ms \in AttemptMs :
         LET url == url_opt[w][1]
             elapsed == Elapsed(since_start[w], ms)
             made == Append(log[w], [ev |-> "request", res |-> res, ms |-> ms])
         IN  IF IsResponse(res) \/ LastAttempt(attempts[w], retries)
             THEN /\ status' = [status EXCEPT ![w] =
                                   <<Outcome(url, res, elapsed)>>]
                  /\ created' = created (+)
                                   SetToBag({Outcome(url, res, elapsed)})
                  /\ since_start' = [since_start EXCEPT ![w] = @ + ms]
                  /\ log' = [log EXCEPT ![w] = made]
                  /\ wpc' = [wpc EXCEPT ![w] = "send"]
                  /\ UNCHANGED attempts
             ELSE /\ \E next \in Increment(attempts[w]) :
                       IF next.panic
                       THEN /\ since_start' = [since_start EXCEPT ![w] = @ + ms]
                            /\ log' = [log EXCEPT ![w] = made]
                            /\ wpc' = [wpc EXCEPT ![w] = "overflow"]
                            /\ UNCHANGED attempts
                       ELSE /\ attempts' = [attempts EXCEPT ![w] = next.val]
                            /\ since_start' = [since_start EXCEPT ![w] =
                                                  @ + ms + BackoffMs]
                            /\ log' = [log EXCEPT ![w] =
                                          Append(made, [ev |-> "sleep",
                                                        ms |-> BackoffMs])]
                            /\ wpc' = [wpc EXCEPT ![w] =
                                          WhileTest(next.val, retries)]
                  /\ UNCHANGED <<status, created>>
    /\ UNCHANGED <<mainVars, sinkVars, queueVars, chan>>

\* tx.send(status).unwrap(), line 173, and the end of the loop body, where
\* url, status and the frame of fetch_status are gone
TxSend(w) ==
    /\ wpc[w] = "send"
    /\ IF RxAlive
       THEN /\ chan' = Append(chan, status[w][1])
            /\ wpc' = [wpc EXCEPT ![w] = "lock"]
       ELSE /\ chan' = chan
            /\ wpc' = [wpc EXCEPT ![w] = "send_failed"]
    /\ status' = [status EXCEPT ![w] = <<>>]
    /\ url_opt' = [url_opt EXCEPT ![w] = <<>>]
    /\ log' = [log EXCEPT ![w] = <<>>]
    /\ attempts' = [attempts EXCEPT ![w] = 0]
    /\ since_start' = [since_start EXCEPT ![w] = 0]
    /\ UNCHANGED <<mainVars, sinkVars, created, job_queue, lock, front,
                   handed>>

\* None => break, line 175: the closure returns and drops what it captured,
\* its Sender among them
WorkerReturn(w) ==
    /\ wpc[w] = "match"
    /\ url_opt[w] = <<>>
    /\ wpc' = [wpc EXCEPT ![w] = "finishing"]
    /\ UNCHANGED <<mainVars, sinkVars, probeVars, queueVars, chan>>

\* the thread ends and becomes joinable
ThreadExit(w) ==
    /\ wpc[w] = "finishing"
    /\ wpc' = [wpc EXCEPT ![w] = "exited"]
    /\ UNCHANGED <<mainVars, sinkVars, probeVars, queueVars, chan>>


(***************************************************************************)
(* main: the collector loop, lines 185-196.                                *)
(***************************************************************************)
\* str::split(c) as a list: the pieces between the occurrences of c
RECURSIVE Split(_, _)
Split(s, c) ==
    LET cut == { k \in 1..Len(s) : s[k] = c }
    IN  IF cut = {} THEN <<s>>
        ELSE LET k == CHOOSE k \in cut : \A m \in cut : k <= m
             IN  <<SubSeq(s, 1, k - 1)>> \o Split(SubSeq(s, k + 1, Len(s)), c)

\* e.split(':').next().unwrap_or("Unknown error").trim(), line 190
UnknownError == <<"U", "n", "k", "n", "o", "w", "n", " ", "e", "r", "r", "o", "r">>
ErrorSummary(e) ==
    LET pieces == Split(e, ":")
    IN  Trim(IF pieces = <<>> THEN UnknownError ELSE pieces[1])

\* the text of lines 188 and 191 after its "[secs] " prefix
Arrow == <<" ", "=", ">", " ">>
ErrorTag == <<"E", "R", "R", "O", "R", ":", " ">>
ProgressLine(o) ==
    IF o.action_status.ok
    THEN o.url \o Arrow \o FormatNat(o.action_status.code)
    ELSE o.url \o Arrow \o ErrorTag \o ErrorSummary(o.action_status.msg)

\* faulty variant of Collect: the outcome is put in front of the earlier ones
CollectInFront ==
    /\ mainpc = "collect"
    /\ chan # <<>>
    /\ chan' = Tail(chan)
    /\ stdout' = Append(stdout, ProgressLine(Head(chan)))
    /\ results' = <<Head(chan)>> \o results
    /\ received' = Append(received, Head(chan))
    /\ UNCHANGED <<mainVars, file, probeVars, queueVars, wpc>>

\* one iteration of `for status in rx`: print the line, push the outcome
Collect ==
    /\ mainpc = "collect"
    /\ chan # <<>>
    /\ chan' = Tail(chan)
    /\ stdout' = Append(stdout, ProgressLine(Head(chan)))
    /\ results' = Append(results, Head(chan))
    /\ received' = Append(received, Head(chan))
    /\ UNCHANGED <<mainVars, file, probeVars, queueVars, wpc>>

\* every Sender is gone
Disconnected == ~tx_main /\ \A w \in Workers : ~WorkerHoldsTx(w)

\* where main goes once j of its n handles are joined
AfterJoin(j, n) == IF j = n THEN "write_json" ELSE "join"

\* faulty variant of CollectEnd: the loop ends as soon as the channel is empty
CollectEndWhenEmpty ==
    /\ mainpc = "collect"
    /\ chan = <<>>
    /\ mainpc' = AfterJoin(joined, spawned)
    /\ UNCHANGED <<args, exit_code, stderr, urls, worker_count, timeout,
                   retries, spawned, joined, tx_main, sinkVars, probeVars,
                   queueVars, chan, wpc>>

\* rx yields None: the channel is empty and disconnected; the loop ends
CollectEnd ==
    /\ mainpc = "collect"
    /\ chan = <<>>
    /\ Disconnected
    /\ mainpc' = AfterJoin(joined, spawned)
    /\ UNCHANGED <<args, exit_code, stderr, urls, worker_count, timeout,
                   retries, spawned, joined, tx_main, sinkVars, probeVars,
                   queueVars, chan, wpc>>

\* faulty variant of Join: main does not wait for the thread
JoinWithoutWaiting ==
    /\ mainpc = "join"
    /\ joined' = joined + 1
    /\ mainpc' = AfterJoin(joined + 1, spawned)
    /\ UNCHANGED <<args, exit_code, stderr, urls, worker_count, timeout,
                   retries, spawned, tx_main, sinkVars, probeVars, queueVars,
                   chan, wpc>>

\* handle.join().unwrap(), line 199: blocks until the thread has ended, and
\* panics (exit status 101) if the thread panicked
Join ==
    /\ mainpc = "join"
    /\ WorkerTerminated(joined + 1)
    /\ joined' = joined + 1
    /\ IF WorkerPanicked(joined + 1)
       THEN mainpc' = "done" /\ exit_code' = 101
       ELSE mainpc' = AfterJoin(joined + 1, spawned) /\ exit_code' = exit_code
    /\ UNCHANGED <<args, stderr, urls, worker_count, timeout, retries,
                   spawned, tx_main, sinkVars, probeVars, queueVars, chan, wpc>>

(***************************************************************************)
(* write_json, lines 56-80.                                                *)
(***************************************************************************)
\* what the six writeln! of lines 71-76 put into the file for results[i]
RecordItem(rs, i) ==
    [kind |-> "record",
     url |-> rs[i].url,
     action_status |-> rs[i].action_status,
     response_time_ms |-> rs[i].response_time,
     comma |-> ~(i = Len(rs))]

\* everything write_json writes when no write fails
Document(rs) ==
    <<[kind |-> "open"]>> \o [i \in 1..Len(rs) |-> RecordItem(rs, i)]
        \o <<[kind |-> "close"]>>

\* File::create fails: unwrap panics, nothing is written
WriteJsonCreateFails ==
    /\ mainpc = "write_json"
    /\ mainpc' = "done"
    /\ exit_code' = 101
    /\ UNCHANGED <<args, stderr, urls, worker_count, timeout, retries, spawned,
                   joined, tx_main, sinkVars, probeVars, queueVars, chan, wpc>>

\* faulty variant of WriteJsonWriteFails: the result of the failed writeln! is
\* dropped instead of unwrapped, and main returns as after a full report
WriteJsonWriteFailureIgnored ==
    /\ mainpc = "write_json"
    /\ \E n \in 0..(Len(results) + 1) :
         file' = [exists |-> TRUE, items |-> SubSeq(Document(results), 1, n)]
    /\ mainpc' = "done"
    /\ exit_code' = 0
    /\ UNCHANGED <<args, stderr, urls, worker_count, timeout, retries, spawned,
                   joined, tx_main, results, stdout, received, probeVars,
                   queueVars, chan, wpc>>

\* a writeln! fails after n items went through: unwrap panics
WriteJsonWriteFails ==
    /\ mainpc = "write_json"
    /\ \E n \in 0..(Len(results) + 1) :
         file' = [exists |-> TRUE, items |-> SubSeq(Document(results), 1, n)]
    /\ mainpc' = "done"
    /\ exit_code' = 101
    /\ UNCHANGED <<args, stderr, urls, worker_count, timeout, retries, spawned,
                   joined, tx_main, results, stdout, received, probeVars,
                   queueVars, chan, wpc>>

\* write_json returns, and main with it: exit status 0
WriteJson ==
    /\ mainpc = "write_json"
    /\ file' = [exists |-> TRUE, items |-> Document(results)]
    /\ mainpc' = "done"
    /\ exit_code' = 0
    /\ UNCHANGED <<args, stderr, urls, worker_count, timeout, retries, spawned,
                   joined, tx_main, results, stdout, received, probeVars,
                   queueVars, chan, wpc>>

(***************************************************************************)
(* The program.                                                            *)
(***************************************************************************)
MainStep ==
    \/ ParseArgsExit
    \/ ParseArgsReturn
    \/ ParseArgsSpin
    \/ Setup
    \/ Spawn
    \/ DropTx
    \/ Collect
    \/ CollectEnd
    \/ Join
    \/ WriteJsonCreateFails
    \/ WriteJsonWriteFails
    \/ WriteJson

WorkerStep(w) ==
    \/ Lock(w)
    \/ PopFrontRead(w)
    \/ PopFrontRemove(w)
    \/ FetchStart(w)
    \/ Request(w)
    \/ TxSend(w)
    \/ WorkerReturn(w)
    \/ ThreadExit(w)

Next == MainStep \/ \E w \in Workers : WorkerStep(w)

Spec == Init /\ [][Next]_vars


\* each thread that can take a step eventually takes one (the OS scheduler),
\* and every request eventually returns (the client's timeout)
FairSpec ==
    Spec /\ WF_vars(MainStep) /\ \A w \in Workers : WF_vars(WorkerStep(w))

(***************************************************************************)
(* Properties.                                                             *)
(***************************************************************************)
ProcessEnded == mainpc = "done"

\* the run is over: the queue is empty, every worker has exited, nothing is
\* left in the channel, main has finished
RunOver ==
    /\ ProcessEnded
    /\ job_queue = <<>>
    /\ chan = <<>>
    /\ \A w \in 1..worker_count : wpc[w] = "exited"

NoDeadlock == ProcessEnded \/ ENABLED Next

\* C2: with at least one worker the run terminates under fair scheduling
\* (the queue empties, every worker exits, the collector loop ends, main
\* finishes); with no URL the process ends with status 2; and no reachable
\* state is a deadlock.
C2_Terminates ==
    /\ []NoDeadlock
    /\ (mainpc = "setup" /\ worker_count >= 1) ~> RunOver
    /\ (mainpc = "parse_args"
          /\ \E n \in 1..MaxWorkers :
               ~parse_args(args, n).spins /\ NoUrls(parse_args(args, n)))
         ~> (ProcessEnded /\ exit_code = 2)


(***************************************************************************)
(* History of the current probe of a worker.                               *)
(***************************************************************************)
IsRequest(e) == e.ev = "request"
RequestsOf(w) == SelectSeq(log[w], IsRequest)

RECURSIVE SumMs(_)
SumMs(l) == IF l = <<>> THEN 0 ELSE Head(l).ms + SumMs(Tail(l))

AllFailed(reqs) == \A k \in 1..Len(reqs) : ~reqs[k].res.ok

UrlsOf(outcomes) == [i \in 1..Len(outcomes) |-> outcomes[i].url]

\* the records of status.json, in the order written
IsRecord(item) == item.kind = "record"
ReportRecords == SelectSeq(file.items, IsRecord)

\* the outcomes the workers hold and have not sent yet
Unsent ==
    LET holders == { w \in Workers : status[w] # <<>> }
    IN  [o \in { status[w][1] : w \in holders } |->
            Cardinality({ w \in holders : status[w][1] = o })]

\* the URLs the workers hold
RECURSIVE InHand(_)
InHand(n) == IF n = 0 THEN EmptyBag ELSE InHand(n - 1) (+) BagOfSeq(url_opt[n])

QueueBuilt == mainpc \notin {"parse_args", "setup"} /\ exit_code # 2

\* C1: a run that ends normally has written exactly one record per
\* submitted URL occurrence: the multiset of URLs in the report is the
\* multiset submitted.
C1_ReportHasEveryUrl ==
    (ProcessEnded /\ exit_code = 0) =>
        BagOfSeq(UrlsOf(ReportRecords)) = BagOfSeq(urls)

\* C3: every URL of the queue is returned to exactly one worker: the URLs
\* still queued and the URLs returned by pop_front are together the URLs
\* submitted, and every URL returned is in the hands of one worker or in
\* one outcome on its way to the report.
C3_TakeExactlyOnce ==
    QueueBuilt =>
        /\ BagOfSeq(job_queue) (+) BagOfSeq(handed) = BagOfSeq(urls)
        /\ BagOfSeq(handed) =
              InHand(MaxWorkers) (+) BagOfSeq(UrlsOf(chan))
                  (+) BagOfSeq(UrlsOf(results))

C3_Witness ==
    /\ Len(handed) = 2
    /\ url_opt[1] # <<>>
    /\ url_opt[2] # <<>>
    /\ job_queue = <<>>

\* C4: a probe whose every attempt failed returns after exactly retries + 1
\* requests, with Failure carrying the error of the last attempt; while
\* fewer requests have failed it has not returned.
C4_ExhaustedAfterAllAttempts ==
    \A w \in Workers :
        LET reqs == RequestsOf(w)
        IN  /\ Len(reqs) <= retries + 1
            /\ (AllFailed(reqs) /\ wpc[w] = "send") =>
                  /\ Len(reqs) = retries + 1
                  /\ status[w][1].action_status =
                        [ok |-> FALSE, msg |-> reqs[Len(reqs)].res.msg]
            /\ (AllFailed(reqs) /\ Len(reqs) = retries + 1) => wpc[w] = "send"
            /\ (status[w] # <<>> /\ ~status[w][1].action_status.ok) =>
                  AllFailed(reqs)

C4_Witness ==
    \E w \in Workers :
        /\ wpc[w] = "send"
        /\ retries = 2
        /\ Len(RequestsOf(w)) = 3
        /\ AllFailed(RequestsOf(w))
        /\ RequestsOf(w)[1].res.msg # RequestsOf(w)[3].res.msg

\* C5: the first request that gets a response, whatever its status code, is
\* the last request of the probe: the probe returns Success with that code
\* right after it, having made at most retries + 1 requests.
C5_ResponseEndsProbe ==
    \A w \in Workers :
        LET reqs == RequestsOf(w)
        IN  \A k \in 1..Len(reqs) :
                reqs[k].res.ok =>
                    /\ k = Len(reqs)
                    /\ k <= retries + 1
                    /\ wpc[w] = "send"
                    /\ status[w][1].action_status =
                          [ok |-> TRUE, code |-> reqs[k].res.code]

C5_Witness ==
    \E w \in Workers :
        /\ wpc[w] = "send"
        /\ Len(RequestsOf(w)) = 2
        /\ status[w][1].action_status = [ok |-> TRUE, code |-> 503]

\* C6: the elapsed time of an outcome is the sum of the durations of all the
\* attempts of its probe and of the pauses between them.
C6_ElapsedIsCumulative ==
    \A w \in Workers :
        status[w] # <<>> => status[w][1].response_time = SumMs(log[w])

C6_Witness ==
    \E w \in Workers :
        /\ status[w] # <<>>
        /\ Len(RequestsOf(w)) = 2
        /\ RequestsOf(w)[1].ms # RequestsOf(w)[2].ms
        /\ status[w][1].response_time = 20 + BackoffMs + 30

\* C7: when write_json starts, and ever after, every worker spawned has
\* terminated, every Sender is gone, no worker holds an unsent outcome and
\* the channel is empty.
C7_WriteAfterWorkers ==
    (mainpc = "write_json" \/ file.exists) =>
        /\ spawned = worker_count
        /\ \A w \in 1..spawned : wpc[w] = "exited"
        /\ Disconnected
        /\ \A w \in Workers : status[w] = <<>>
        /\ chan = <<>>

C7_Witness ==
    /\ mainpc = "write_json"
    /\ worker_count = 2
    /\ Len(results) = 2

\* C8: the outcomes accumulated are the outcomes received, in the order
\* received, one progress line was printed for each in the same order, and
\* the report lists them in that order (all of them when the run ends with
\* status 0).
C8_ReportInArrivalOrder ==
    /\ results = received
    /\ Len(stdout) = Len(received)
    /\ \A i \in 1..Len(received) : stdout[i] = ProgressLine(received[i])
    /\ Len(ReportRecords) <= Len(received)
    /\ \A i \in 1..Len(ReportRecords) :
          /\ ReportRecords[i].url = received[i].url
          /\ ReportRecords[i].action_status = received[i].action_status
          /\ ReportRecords[i].response_time_ms = received[i].response_time
    /\ exit_code = 0 => Len(ReportRecords) = Len(received)

C8_Witness ==
    /\ exit_code = 0
    /\ urls = << <<"a">>, <<"b">> >>
    /\ UrlsOf(ReportRecords) = << <<"b">>, <<"a">> >>

\* a token of the command line that is a flag
IsFlag(t) == t \in {FlagFile, FlagWorkers, FlagTimeout, FlagRetries}

\* C9: when parse_args resolves no URL the process prints the usage message
\* and exits with status 2 with no queue built, no worker spawned, no probe
\* made and no report written; and the run goes on only with a URL.
C9_NoUrlsExitsEarly ==
    /\ exit_code = 2 =>
          /\ ProcessEnded
          /\ stderr = <<UsageLine>>
          /\ \A i \in 2..Len(args) : IsFlag(args[i]) \/ IsFlag(args[i - 1])
          /\ urls = <<>> /\ job_queue = <<>> /\ handed = <<>>
          /\ ~tx_main /\ spawned = 0
          /\ \A w \in Workers : wpc[w] = "unborn" /\ log[w] = <<>>
          /\ created = EmptyBag
          /\ stdout = <<>>
          /\ ~file.exists
    /\ (mainpc # "parse_args" /\ exit_code # 2) => urls # <<>>
    /\ exit_code # 2 => stderr = <<>>

C9_Witness ==
    /\ exit_code = 2
    /\ args = <<ProgramName, FlagFile, PathNoUrls>>

\* no worker has panicked; every outcome fetch_status returned, failures
\* included, is held unsent by its worker, in the channel, or accumulated;
\* the process ends with a panic only inside write_json; a run that ends
\* with status 0 has recorded every failure
FailuresAreKept ==
    /\ \A w \in Workers : ~WorkerPanicked(w)
    /\ created = Unsent (+) BagOfSeq(chan) (+) BagOfSeq(results)
    /\ exit_code \in {-1, 0, 2, 101}
    /\ exit_code \in {0, 101} =>
          /\ BagOfSeq(results) = created
          /\ Len(results) = Len(handed)
          /\ \A w \in 1..worker_count : wpc[w] = "exited"
    /\ exit_code = 0 =>
          \A i \in 1..Len(results) :
              ReportRecords[i].action_status = results[i].action_status

\* a request either is retried or yields an outcome, and a worker holding an
\* outcome sends it and goes back to the queue
WorkerGoesOn ==
    \A w \in Workers :
        /\ wpc[w] = "request" => wpc'[w] \in {"request", "send"}
        /\ (wpc[w] = "send" /\ wpc'[w] # "send") =>
              /\ wpc'[w] = "lock"
              /\ chan' = Append(chan, status[w][1])

\* C10: a transport failure never crashes a worker or the run: no worker
\* ever panics, every exhausted probe yields a Failure outcome that is
\* sent and recorded, the worker then goes back to the queue, and a run
\* whose report is written ends with status 0 whatever its failures.
C10_FailuresAreRecorded == []FailuresAreKept /\ [][WorkerGoesOn]_vars

C10_Witness ==
    /\ exit_code = 0
    /\ worker_count = 1
    /\ Len(results) = 2
    /\ ~results[1].action_status.ok
    /\ results[2].action_status.ok

C2_Witness ==
    /\ RunOver
    /\ exit_code = 0
    /\ worker_count = 2
    /\ Len(results) = 2

\* C11: every command line parse_args accepts gives a worker count of at
\* least one, and once the spawn loop is over main has spawned exactly that
\* many workers.
C11_WorkerCountPositive ==
    /\ (mainpc # "parse_args" /\ exit_code # 2) => worker_count >= 1
    /\ (QueueBuilt /\ mainpc # "spawn") => spawned = worker_count


(***************************************************************************)
(* parse_args alone, on longer command lines: a flag may be repeated.      *)
(***************************************************************************)
MaxParseSegments == 3

\* the tokens given as the value of a numeric flag: numerals, a signed
\* numeral, and tokens that are no number
FlagValues ==
    { <<"9">>, <<"+", "7">>, <<"-", "1">>, NotANumber, <<"1", "x">> }

ParseSegments ==
    { <<u>> : u \in UrlTokens }
        \cup { <<FlagFile, PathUrls>>, <<FlagFile, PathDir>> }
        \cup { <<FlagWorkers, FormatNat(1)>>, <<FlagWorkers, NotANumber>> }
        \cup { <<FlagTimeout, v>> : v \in FlagValues }
        \cup { <<FlagRetries, v>> : v \in FlagValues }
        \cup { <<FlagTimeout>>, <<FlagRetries>> }

RECURSIVE ParseSegmentLists(_)
ParseSegmentLists(n) ==
    IF n = 0 THEN { <<>> }
    ELSE LET shorter == ParseSegmentLists(n - 1)
         IN  shorter \cup { l \o s : l \in shorter, s \in ParseSegments }

ParseCommandLines ==
    { <<ProgramName>> \o l : l \in ParseSegmentLists(MaxParseSegments) }

\* the process at its start, as in Init, with one of the longer command lines
InitParse ==
    /\ mainpc = "parse_args"
    /\ args \in ParseCommandLines
    /\ exit_code = -1
    /\ stderr = <<>>
    /\ urls = <<>>
    /\ worker_count = 0
    /\ timeout = 0
    /\ retries = 0
    /\ job_queue = <<>>
    /\ lock = 0
    /\ spawned = 0
    /\ joined = 0
    /\ tx_main = FALSE
    /\ chan = <<>>
    /\ results = <<>>
    /\ stdout = <<>>
    /\ file = [exists |-> FALSE, items |-> <<>>]
    /\ wpc = [w \in Workers |-> "unborn"]
    /\ front = [w \in Workers |-> <<>>]
    /\ url_opt = [w \in Workers |-> <<>>]
    /\ attempts = [w \in Workers |-> 0]
    /\ since_start = [w \in Workers |-> 0]
    /\ status = [w \in Workers |-> <<>>]
    /\ log = [w \in Workers |-> <<>>]
    /\ handed = <<>>
    /\ created = EmptyBag
    /\ received = <<>>

NextParse == ParseArgsExit \/ ParseArgsReturn \/ ParseArgsSpin

SpecParse == InitParse /\ [][NextParse]_vars

\* the positions of the command line the loop of parse_args looks at as an
\* argument of its own: a flag takes the token after it as its value
RECURSIVE Visited(_, _)
Visited(a, i) ==
    IF i > Len(a) THEN {}
    ELSE {i} \cup Visited(a, IF IsFlag(a[i]) THEN i + 2 ELSE i + 1)

\* a token that is a decimal numeral, with an optional plus sign
IsNumeral(t) ==
    LET digits == IF StartsWith(t, "+") THEN Tail(t) ELSE t
    IN  digits # <<>> /\ \A k \in 1..Len(digits) : IsDigit(digits[k])

\* the value the command line gives to the flag is no number; when the flag
\* is repeated its last occurrence counts
HasInvalidValue(a, flag) ==
    \E i \in Visited(a, 2) :
        /\ a[i] = flag /\ i < Len(a) /\ ~IsNumeral(a[i + 1])
        /\ \A j \in Visited(a, 2) : j > i => a[j] # flag

\* the command line names a URL
HasUrlArgument(a) == \E i \in Visited(a, 2) : ~IsFlag(a[i])

\* what a step of parse_args does with unparseable numbers
InvalidNumberStep ==
    mainpc = "parse_args" =>
        /\ exit_code' \in {-1, 2}
        /\ HasUrlArgument(args) => mainpc' = "setup"
        /\ (mainpc' = "setup" /\ HasInvalidValue(args, FlagTimeout)) =>
              timeout' = DefaultTimeout
        /\ (mainpc' = "setup" /\ HasInvalidValue(args, FlagRetries)) =>
              retries' = DefaultRetries

\* C12: for any command line, when the value given to --timeout is not a
\* number the timeout parse_args returns is the default 5, when the value
\* given to --retries is not a number the retry budget it returns is the
\* default 0, and such a value never ends the process.
C12_InvalidNumberGivesDefault == [][InvalidNumberStep]_vars


\* the text of a message before its first ':'
BeforeFirstColon(msg) ==
    LET colons == { k \in 1..Len(msg) : msg[k] = ":" }
        first == CHOOSE k \in colons : \A m \in colons : k <= m
    IN  SubSeq(msg, 1, first - 1)

\* C13: the progress line of a Failure outcome ends with the text of the
\* failure message before its first ':' when the message contains a ':',
\* and with "Unknown error" when it contains none.
C13_ErrorSummaryOnConsole ==
    \A i \in 1..Len(received) :
        LET o == received[i]
            msg == o.action_status.msg
        IN  (i <= Len(stdout) /\ ~o.action_status.ok) =>
                stdout[i] = o.url \o Arrow \o ErrorTag \o
                    (IF \E k \in 1..Len(msg) : msg[k] = ":"
                     THEN BeforeFirstColon(msg) ELSE UnknownError)


\* status.json holds the complete report: the opening bracket, one record
\* for every collected outcome in order, the closing bracket
ReportComplete ==
    /\ file.exists
    /\ Len(file.items) = Len(results) + 2
    /\ file.items[1].kind = "open"
    /\ file.items[Len(file.items)].kind = "close"
    /\ \A i \in 1..Len(results) :
          /\ file.items[i + 1].kind = "record"
          /\ file.items[i + 1].url = results[i].url
          /\ file.items[i + 1].action_status = results[i].action_status
          /\ file.items[i + 1].response_time_ms = results[i].response_time

\* C14: writing the report is all or nothing for the run: a run that got as
\* far as write_json ends with status 0 exactly when status.json holds the
\* complete report; when the file could not be created or a write failed
\* the report is missing or cut short and the run ends with a failure
\* status.
C14_ReportAllOrNothing ==
    /\ exit_code = 0 => ReportComplete
    /\ (ProcessEnded /\ exit_code # 2) =>
          /\ exit_code \in {0, 101}
          /\ ReportComplete <=> exit_code = 0
    /\ ~ProcessEnded => exit_code = -1 /\ ~file.exists

C14_Witness ==
    /\ ProcessEnded
    /\ exit_code = 101
    /\ Len(results) = 2
    /\ file.exists
    /\ Len(file.items) = 2


(***************************************************************************)
(* The text of status.json: what the format strings of write_json, lines   *)
(* 58-79, write for each item.  Every {} is filled by Display: a string is *)
(* copied as it is, character by character, with no escaping.              *)
(***************************************************************************)
Newline == <<"\n">>
Quote == <<"\"">>

\* lines 60-63: "\"action_status\": {{ \"Ok\": {} }}" and its Err twin
ActionStatusStr(st) ==
    <<"\"", "a", "c", "t", "i", "o", "n", "_", "s", "t", "a", "t", "u", "s",
      "\"", ":", " ", "{", " ">>
      \o (IF st.ok
          THEN <<"\"", "O", "k", "\"", ":", " ">> \o FormatNat(st.code)
          ELSE <<"\"", "E", "r", "r", "\"", ":", " ">>
                   \o Quote \o st.msg \o Quote)
      \o <<" ", "}">>

\* the six writeln! of lines 71-76 for a record, secs being the seconds of
\* its timestamp since the epoch
RecordText(item, secs) ==
    <<" ", " ", "{">> \o Newline
      \o <<" ", " ", " ", " ", "\"", "u", "r", "l", "\"", ":", " ">>
      \o Quote \o item.url \o Quote \o <<",">> \o Newline
      \o <<" ", " ", " ", " ">> \o ActionStatusStr(item.action_status)
      \o <<",">> \o Newline
      \o <<" ", " ", " ", " ", "\"", "r", "e", "s", "p", "o", "n", "s", "e",
           "_", "t", "i", "m", "e", "_", "m", "s", "\"", ":", " ">>
      \o FormatNat(item.response_time_ms) \o <<",">> \o Newline
      \o <<" ", " ", " ", " ", "\"", "t", "i", "m", "e", "s", "t", "a", "m",
           "p", "\"", ":", " ">>
      \o Quote \o FormatNat(secs) \o Quote \o Newline
      \o <<" ", " ", "}">> \o (IF item.comma THEN <<",">> ELSE <<>>)
      \o Newline

\* lines 58 and 79, and the records between them
ItemText(item, secs) ==
    IF item.kind = "open" THEN <<"[">> \o Newline
    ELSE IF item.kind = "close" THEN <<"]">> \o Newline
    ELSE RecordText(item, secs)

\* the characters of the file, in the order written
RECURSIVE FileText(_, _)
FileText(items, secs) ==
    IF items = <<>> THEN <<>>
    ELSE ItemText(Head(items), secs) \o FileText(Tail(items), secs)

(***************************************************************************)
(* write_json alone, on outcomes whose strings hold the characters JSON    *)
(* gives a meaning to: the run of one worker that collected them, at the   *)
(* call of write_json.                                                     *)
(***************************************************************************)
MaxRecords == 2

ReportUrls == { <<"a">>, <<"a", "\"", "b">> }
ReportStatuses ==
    { [ok |-> TRUE, code |-> 200],
      [ok |-> FALSE, msg |-> <<"d", "n", "s">>],
      [ok |-> FALSE, msg |-> <<"c", ":", "\\">>],
      [ok |-> FALSE, msg |-> <<"e", "\n", "f">>] }
ReportOutcomes ==
    { Outcome(u, st, ms) : u \in ReportUrls, st \in ReportStatuses,
                           ms \in AttemptMs }

RECURSIVE OutcomeLists(_)
OutcomeLists(n) ==
    IF n = 0 THEN { <<>> }
    ELSE LET shorter == OutcomeLists(n - 1)
         IN  shorter \cup { Append(l, o) : l \in shorter, o \in ReportOutcomes }

InitReport ==
    /\ mainpc = "write_json"
    /\ results \in OutcomeLists(MaxRecords) \ { <<>> }
    /\ urls = UrlsOf(results)
    /\ received = results
    /\ handed = urls
    /\ created = BagOfSeq(results)
    /\ stdout = [i \in 1..Len(results) |-> ProgressLine(results[i])]
    /\ args = <<>>
    /\ exit_code = -1
    /\ stderr = <<>>
    /\ worker_count = 1
    /\ timeout = DefaultTimeout
    /\ retries = DefaultRetries
    /\ job_queue = <<>>
    /\ lock = 0
    /\ spawned = 1
    /\ joined = 1
    /\ tx_main = FALSE
    /\ chan = <<>>
    /\ file = [exists |-> FALSE, items |-> <<>>]
    /\ wpc = [w \in Workers |-> IF w = 1 THEN "exited" ELSE "unborn"]
    /\ front = [w \in Workers |-> <<>>]
    /\ url_opt = [w \in Workers |-> <<>>]
    /\ attempts = [w \in Workers |-> 0]
    /\ since_start = [w \in Workers |-> 0]
    /\ status = [w \in Workers |-> <<>>]
    /\ log = [w \in Workers |-> <<>>]

NextReport == WriteJsonCreateFails \/ WriteJsonWriteFails \/ WriteJson

SpecReport == InitReport /\ [][NextReport]_vars


(***************************************************************************)
(* Reading a JSON text (RFC 8259), as far as the texts of write_json go:   *)
(* strings, unsigned integers, objects and arrays.  A reader returns       *)
(* [ok |-> TRUE, val |-> value, rest |-> the text left] or JsonError; a    *)
(* value is [t |-> "str" | "num" | "obj" | "arr", v |-> its content], the  *)
(* content of an object being the list of its [key, val] members.          *)
(***************************************************************************)
JsonError == [ok |-> FALSE]

JsonWhitespace == {" ", "\n", "\t", "\r"}
JsonControl == {"\n", "\t", "\r", "\f"}

RECURSIVE SkipWhitespace(_)
SkipWhitespace(s) ==
    IF s # <<>> /\ Head(s) \in JsonWhitespace
    THEN SkipWhitespace(Tail(s)) ELSE s

\* the character an escape stands for; <<>> for an escape JSON does not have
Unescaped(c) ==
    CASE c = "\"" -> <<"\"">>
      [] c = "\\" -> <<"\\">>
      [] c = "/"  -> <<"/">>
      [] c = "n"  -> <<"\n">>
      [] c = "t"  -> <<"\t">>
      [] c = "r"  -> <<"\r">>
      [] c = "f"  -> <<"\f">>
      [] OTHER    -> <<>>

\* the content of a string up to its closing quote: an escape is decoded, a
\* bare control character is an error, and so is the end of the text
RECURSIVE JsonStringBody(_, _)
JsonStringBody(s, acc) ==
    IF s = <<>> THEN JsonError
    ELSE IF Head(s) = "\"" THEN [ok |-> TRUE, val |-> acc, rest |-> Tail(s)]
    ELSE IF Head(s) = "\\"
         THEN IF Len(s) >= 2 /\ Unescaped(s[2]) # <<>>
              THEN JsonStringBody(SubSeq(s, 3, Len(s)), acc \o Unescaped(s[2]))
              ELSE JsonError
    ELSE IF Head(s) \in JsonControl THEN JsonError
    ELSE JsonStringBody(Tail(s), Append(acc, Head(s)))

JsonString(s) ==
    IF StartsWith(s, "\"") THEN JsonStringBody(Tail(s), <<>>) ELSE JsonError

RECURSIVE DigitPrefix(_)
DigitPrefix(s) ==
    IF s # <<>> /\ IsDigit(Head(s))
    THEN <<Head(s)>> \o DigitPrefix(Tail(s)) ELSE <<>>

JsonNumber(s) ==
    LET digits == DigitPrefix(s)
    IN  IF digits = <<>> \/ (Len(digits) > 1 /\ Head(digits) = "0")
        THEN JsonError
        ELSE [ok |-> TRUE, val |-> DigitsValue(digits, 0),
              rest |-> SubSeq(s, Len(digits) + 1, Len(s))]

Tagged(tag, read) ==
    IF read.ok
    THEN [ok |-> TRUE, val |-> [t |-> tag, v |-> read.val], rest |-> read.rest]
    ELSE JsonError

RECURSIVE JsonValue(_), JsonMembers(_, _), JsonElements(_, _)
JsonValue(text) ==
    LET s == SkipWhitespace(text)
    IN  IF s = <<>> THEN JsonError
        ELSE IF Head(s) = "\"" THEN Tagged("str", JsonString(s))
        ELSE IF IsDigit(Head(s)) THEN Tagged("num", JsonNumber(s))
        ELSE IF Head(s) = "{"
             THEN IF StartsWith(SkipWhitespace(Tail(s)), "}")
                  THEN [ok |-> TRUE, val |-> [t |-> "obj", v |-> <<>>],
                        rest |-> Tail(SkipWhitespace(Tail(s)))]
                  ELSE Tagged("obj", JsonMembers(Tail(s), <<>>))
        ELSE IF Head(s) = "["
             THEN IF StartsWith(SkipWhitespace(Tail(s)), "]")
                  THEN [ok |-> TRUE, val |-> [t |-> "arr", v |-> <<>>],
                        rest |-> Tail(SkipWhitespace(Tail(s)))]
                  ELSE Tagged("arr", JsonElements(Tail(s), <<>>))
        ELSE JsonError

\* the members of an object from a key on, up to the closing brace
JsonMembers(text, acc) ==
    LET key == JsonString(SkipWhitespace(text))
        colon == SkipWhitespace(key.rest)
        value == JsonValue(Tail(colon))
        after == SkipWhitespace(value.rest)
        got == Append(acc, [key |-> key.val, val |-> value.val])
    IN  IF ~key.ok THEN JsonError
        ELSE IF ~StartsWith(colon, ":") THEN JsonError
        ELSE IF ~value.ok THEN JsonError
        ELSE IF StartsWith(after, ",") THEN JsonMembers(Tail(after), got)
        ELSE IF StartsWith(after, "}")
             THEN [ok |-> TRUE, val |-> got, rest |-> Tail(after)]
        ELSE JsonError

\* the elements of an array from a value on, up to the closing bracket
JsonElements(text, acc) ==
    LET value == JsonValue(text)
        after == SkipWhitespace(value.rest)
        got == Append(acc, value.val)
    IN  IF ~value.ok THEN JsonError
        ELSE IF StartsWith(after, ",") THEN JsonElements(Tail(after), got)
        ELSE IF StartsWith(after, "]")
             THEN [ok |-> TRUE, val |-> got, rest |-> Tail(after)]
        ELSE JsonError

\* a whole text: one value and nothing but whitespace after it
JsonDocument(text) ==
    LET read == JsonValue(text)
    IN  IF read.ok /\ SkipWhitespace(read.rest) = <<>> THEN read ELSE JsonError


\* the seconds since the epoch a timestamp may hold
ClockSecs == {0, 1762183000}

\* the members of an object that carry a given key
Named(object, key) == SelectSeq(object.v, LAMBDA m : m.key = key)

\* the value read is a record that gives back the outcome: its url, its
\* variant with the status code or the message, its milliseconds
RecordDecoded(value, outcome) ==
    /\ value.t = "obj"
    /\ LET url == Named(value, <<"u", "r", "l">>)
           action_status ==
               Named(value, <<"a", "c", "t", "i", "o", "n", "_", "s", "t",
                              "a", "t", "u", "s">>)
           response_time_ms ==
               Named(value, <<"r", "e", "s", "p", "o", "n", "s", "e", "_",
                              "t", "i", "m", "e", "_", "m", "s">>)
       IN  /\ Len(url) = 1
           /\ url[1].val.t = "str"
           /\ url[1].val.v = outcome.url
           /\ Len(action_status) = 1
           /\ action_status[1].val.t = "obj"
           /\ Len(action_status[1].val.v) = 1
           /\ LET variant == action_status[1].val.v[1]
              IN  IF outcome.action_status.ok
                  THEN /\ variant.key = <<"O", "k">>
                       /\ variant.val.t = "num"
                       /\ variant.val.v = outcome.action_status.code
                  ELSE /\ variant.key = <<"E", "r", "r">>
                       /\ variant.val.t = "str"
                       /\ variant.val.v = outcome.action_status.msg
           /\ Len(response_time_ms) = 1
           /\ response_time_ms[1].val.t = "num"
           /\ response_time_ms[1].val.v = outcome.response_time

\* C15: whatever outcomes were collected, and whatever characters their URLs
\* and failure messages hold, the text of the status.json of a run that
\* ended with status 0 is a JSON document, an array with one object per
\* outcome, and reading it gives back for each outcome the same url, the
\* same variant with the same status code or message, and the same
\* response_time_ms.
C15_ReportRoundTrips ==
    exit_code = 0 =>
        \A secs \in ClockSecs :
            LET doc == JsonDocument(FileText(file.items, secs))
            IN  /\ doc.ok
                /\ doc.val.t = "arr"
                /\ Len(doc.val.v) = Len(results)
                /\ \A i \in 1..Len(results) :
                      RecordDecoded(doc.val.v[i], results[i])


\* the requests and pauses of the probe of worker w so far: requests and
\* pauses alternate from a request on, a pause lasts 100 ms and follows a
\* failed request made with the counter below the budget, the counter is
\* the number of pauses, and only the request in progress or the one that
\* returned is not followed by a pause
ProbeInOrder(w) ==
    LET n == Len(log[w])
    IN  /\ attempts[w] \in 0..retries
        /\ \A k \in 1..n :
              IF k % 2 = 1
              THEN log[w][k].ev = "request"
              ELSE /\ log[w][k] = [ev |-> "sleep", ms |-> 100]
                   /\ ~log[w][k - 1].res.ok
                   /\ (k \div 2) - 1 < retries
        /\ wpc[w] = "request" => n = 2 * attempts[w]
        /\ wpc[w] = "send" => n = 2 * attempts[w] + 1
        /\ wpc[w] \notin {"request", "send"} => n = 0 /\ attempts[w] = 0
        /\ (status[w] # <<>> /\ ~status[w][1].action_status.ok) =>
              /\ attempts[w] = retries
              /\ ~log[w][n].res.ok

\* C16: within a probe the attempt counter starts at 0 and never exceeds
\* the retry budget; Failure is returned only by a failed attempt made with
\* the counter at the budget; every failed attempt made with the counter
\* below the budget is followed by one increment and one pause of 100 ms
\* before the next request; there is no pause before the first attempt nor
\* after the last.
C16_RetrySchedule == \A w \in Workers : ProbeInOrder(w)

C16_Witness ==
    \E w \in Workers :
        /\ wpc[w] = "send"
        /\ retries = 2
        /\ attempts[w] = 2
        /\ Len(log[w]) = 5
        /\ ~status[w][1].action_status.ok


\* the worker is inside queue.pop_front()
Popping(w) == wpc[w] \in {"pop_front", "pop_front_remove"}

\* C17: at most one worker holds the lock of the job queue, and the worker
\* holding it is executing the pop and nothing else: a worker that waits
\* for the lock, probes a URL, pauses between two attempts, sends an
\* outcome or has finished does not hold it.
C17_LockOnlyAroundPop ==
    /\ lock \in 0..spawned
    /\ Cardinality({ w \in Workers : Popping(w) }) <= 1
    /\ \A w \in Workers : lock = w <=> Popping(w)

C17_Witness ==
    /\ lock = 1
    /\ wpc[1] = "pop_front_remove"
    /\ wpc[2] = "request"
    /\ attempts[2] = 1


\* the receive loop of the collector is over
LoopEnded == mainpc \in {"join", "write_json"} \/ exit_code \in {0, 101}

\* main has dropped its Sender and every worker has dropped its clone by
\* returning from its closure
SendersDropped ==
    /\ ~tx_main
    /\ spawned = worker_count
    /\ \A w \in 1..spawned : wpc[w] \in {"finishing", "exited"}

\* while main receives it holds no Sender, and after the loop every Sender
\* is dropped, the channel is empty and one outcome was accumulated for
\* each URL taken from the queue
LoopEndsDrained ==
    /\ mainpc = "collect" => ~tx_main
    /\ LoopEnded =>
          /\ SendersDropped
          /\ chan = <<>>
          /\ Len(results) = Len(handed)

\* the step that leaves the loop starts with every Sender dropped and the
\* channel empty
LoopExit ==
    (mainpc = "collect" /\ mainpc' # "collect") => SendersDropped /\ chan = <<>>

AllWorkersExited ==
    /\ QueueBuilt
    /\ spawned = worker_count
    /\ \A w \in 1..spawned : wpc[w] = "exited"

\* C18: the receive loop of the collector ends only when every Sender,
\* main's and each worker's clone, is dropped and the channel is empty, so
\* that at its end the outcomes accumulated are as many as the URLs taken
\* from the queue; and once all workers have exited the loop does end,
\* main having dropped its own Sender before it receives.
C18_CollectorLoopEnds ==
    /\ []LoopEndsDrained
    /\ [][LoopExit]_vars
    /\ AllWorkersExited ~> LoopEnded

C18_Witness ==
    /\ mainpc = "join"
    /\ joined = 0
    /\ worker_count = 2
    /\ Len(results) = 2
    /\ wpc[2] = "finishing"


(***************************************************************************)
(* fetch_status alone, for every retry budget of the type: the worker of a *)
(* one-worker run that has just taken the only URL.                        *)
(***************************************************************************)
InitProbe ==
    /\ mainpc = "collect"
    /\ retries \in 0..MaxU32
    /\ urls \in { <<u>> : u \in UrlTokens }
    /\ handed = urls
    /\ url_opt = [w \in Workers |-> IF w = 1 THEN urls ELSE <<>>]
    /\ wpc = [w \in Workers |-> IF w = 1 THEN "match" ELSE "unborn"]
    /\ args = <<>>
    /\ exit_code = -1
    /\ stderr = <<>>
    /\ worker_count = 1
    /\ timeout = DefaultTimeout
    /\ job_queue = <<>>
    /\ lock = 0
    /\ spawned = 1
    /\ joined = 0
    /\ tx_main = FALSE
    /\ chan = <<>>
    /\ results = <<>>
    /\ stdout = <<>>
    /\ file = [exists |-> FALSE, items |-> <<>>]
    /\ front = [w \in Workers |-> <<>>]
    /\ attempts = [w \in Workers |-> 0]
    /\ since_start = [w \in Workers |-> 0]
    /\ status = [w \in Workers |-> <<>>]
    /\ log = [w \in Workers |-> <<>>]
    /\ created = EmptyBag
    /\ received = <<>>

NextProbe == \E w \in Workers : FetchStart(w) \/ Request(w)

SpecProbe == InitProbe /\ [][NextProbe]_vars

\* no worker is at unreachable!() or stopped by an overflow, and the counter
\* is within the budget
LoopStaysInside ==
    \A w \in Workers :
        /\ wpc[w] \notin {"unreachable", "overflow"}
        /\ attempts[w] <= retries
        /\ attempts[w] <= MaxU32

\* an iteration of the loop (a request of the worker is recorded) returns an
\* outcome, or adds one to a counter that was strictly below the budget
IterationStep ==
    \A w \in Workers :
        (wpc[w] = "request" /\ log'[w] # log[w]) =>
            \/ wpc'[w] = "send" /\ status'[w] # <<>> /\ attempts'[w] = attempts[w]
            \/ /\ wpc'[w] = "request"
               /\ attempts[w] < retries
               /\ attempts'[w] = attempts[w] + 1

\* C19: the unreachable!() after the loop of fetch_status is never executed,
\* for every retry budget of the type and every sequence of attempt
\* results: each iteration either returns or increments attempts from a
\* value strictly below retries, so attempts never exceeds retries and the
\* increment never overflows.
C19_UnreachableIsUnreachable == []LoopStaysInside /\ [][IterationStep]_vars

C19_Witness ==
    /\ retries = MaxU32
    /\ attempts[1] = MaxU32
    /\ wpc[1] = "send"
    /\ ~status[1][1].action_status.ok


\* the first n elements of a list
Prefix(s, n) == SubSeq(s, 1, n)

\* C20: URLs are taken from the job queue in the order submitted: the n-th
\* URL pop_front returns, whichever worker takes it, is the n-th URL of the
\* submitted list, and the queue holds the rest in order; hence with a
\* single worker the outcomes are received, and the report is written, in
\* the order submitted.
C20_TakenInSubmissionOrder ==
    QueueBuilt =>
        /\ Len(handed) <= Len(urls)
        /\ handed = Prefix(urls, Len(handed))
        /\ job_queue = SubSeq(urls, Len(handed) + 1, Len(urls))
        /\ worker_count = 1 =>
              /\ UrlsOf(results) = Prefix(urls, Len(results))
              /\ UrlsOf(ReportRecords) = Prefix(urls, Len(ReportRecords))
              /\ exit_code = 0 => UrlsOf(ReportRecords) = urls

C20_Witness ==
    /\ exit_code = 0
    /\ worker_count = 1
    /\ urls = << <<"b">>, <<"a">> >>
    /\ handed = urls
    /\ UrlsOf(ReportRecords) = urls

=============================================================================
